---- MODULE Spec2Model ----
(***************************************************************************)
(* A model of the DRAM timing callback (src/resources/dram.cc) and of the  *)
(* soft divide/modulo routines (src/test/e2e-tests/resources/linkage/      *)
(* math.c).                                                                *)
(*                                                                         *)
(* Number representation.  TLC integers are 32-bit signed, so a uint32_t   *)
(* is a pair <<lo, hi>> of 16-bit limbs (value lo + 65536*hi), a 64-bit    *)
(* long long is a 4-tuple of 16-bit limbs (two's complement, least         *)
(* significant first), and the USItype values of math.c are sequences of   *)
(* 32 bits (least significant first).  int arguments (req_id, req_mask,    *)
(* countdown) are plain integers.                                          *)
(*                                                                         *)
(* dram_tick is one action: countdown decrement, drain, back-pressure and  *)
(* acceptance happen in one step.  dram_init (the hex-file loader) is not  *)
(* modelled: the storage starts zero-filled, as constructed.               *)
(***************************************************************************)
EXTENDS Integers, Sequences, FiniteSets, TLC

VARIABLES
    mem_storage,   \* dram.cc:10  sparse: offset -> nonzero byte, absent = 0
    resp_queue,    \* dram.cc:24  sequence of Response records
    req_ready,     \* dram.cc:98  output of the last tick
    resp_valid,    \* dram.cc:99
    resp_id,       \* dram.cc:100
    resp_data,     \* dram.cc:101
    seen,          \* observer: the inputs of the last tick
    pending,       \* observer: accepted requests whose response is not yet seen
    done,          \* observer: what the last tick delivered
    hist,          \* observer: the ids accepted and the ids delivered so far
    used,          \* environment: how much of its traffic it has issued
    call           \* math.c: the locals of a caller running __udivsi3, then __umodsi3

vars == <<mem_storage, resp_queue, req_ready, resp_valid, resp_id, resp_data,
          seen, pending, done, hist, used, call>>

-----------------------------------------------------------------------------
(* Program constants *)

MEM_SIZE == 64 * 1024 * 1024
DELAY == 20
MAX_QUEUE == 16
DRAM_BASE == 0
LIMB == 65536

-----------------------------------------------------------------------------
(* uint32_t / uint8_t arithmetic on limb pairs *)

RECURSIVE Pow2(_)
Pow2(k) == IF k = 0 THEN 1 ELSE 2 * Pow2(k - 1)

RECURSIVE BitOr(_, _)
BitOr(a, b) ==
    IF a = 0 THEN b
    ELSE IF b = 0 THEN a
    ELSE (IF a % 2 = 1 \/ b % 2 = 1 THEN 1 ELSE 0) + 2 * BitOr(a \div 2, b \div 2)

U32Zero == <<0, 0>>

\* (uint32_t)x for an unsigned char x
U32OfByte(b) == <<b, 0>>

\* w >> s for 0 <= s < 32
U32Shr(w, s) ==
    IF s >= 16
    THEN <<w[2] \div Pow2(s - 16), 0>>
    ELSE <<(w[1] \div Pow2(s)) + (w[2] % Pow2(s)) * Pow2(16 - s), w[2] \div Pow2(s)>>

\* w << s for 0 <= s < 32, truncated to 32 bits
U32Shl(w, s) ==
    IF s >= 16
    THEN <<0, (w[1] * Pow2(s - 16)) % LIMB>>
    ELSE <<(w[1] * Pow2(s)) % LIMB,
           ((w[2] * Pow2(s)) % LIMB) + (w[1] \div Pow2(16 - s))>>

U32Or(a, b) == <<BitOr(a[1], b[1]), BitOr(a[2], b[2])>>

\* (uint8_t)(w & 0xFF)
U32LowByte(w) == w[1] % 256

\* raw < k, for a uint32_t raw and a size_t k below 2^31
U32Less(raw, k) ==
    \/ raw[2] < k \div LIMB
    \/ raw[2] = k \div LIMB /\ raw[1] < k % LIMB

\* raw >= k
U32AtLeast(raw, k) == ~U32Less(raw, k)

\* the value of a uint32_t known to be below 2^31
U32Val(raw) == raw[1] + LIMB * raw[2]

\* (uint32_t)req_addr: the low 32 bits of the long long
ToU32(addr) == <<addr[1], addr[2]>>

\* MaskBit with a fault: every byte lane counts as enabled
MaskBitAll(mask, i) == 1

\* (req_mask >> i) & 1 on a signed int (arithmetic shift)
MaskBit(mask, i) == (mask \div Pow2(i)) % 2

-----------------------------------------------------------------------------
(* mem_storage: a vector of MEM_SIZE bytes, zero-filled at construction *)

MemByte(m, a) == IF a \in DOMAIN m THEN m[a] ELSE 0

MemStore(m, a, b) ==
    IF b = 0
    THEN [x \in DOMAIN m \ {a} |-> m[x]]
    ELSE [x \in DOMAIN m \cup {a} |-> IF x = a THEN b ELSE m[x]]

ZeroData == <<U32Zero, U32Zero, U32Zero, U32Zero>>

\* dram.cc:162-174, the loop from index i on
RECURSIVE WriteLoop(_, _, _, _, _)
WriteLoop(m, offset, req_data, req_mask, i) ==
    IF i >= 16 THEN m
    ELSE LET word_idx == i \div 4
             byte_shift == (i % 4) * 8
             b == U32LowByte(U32Shr(req_data[word_idx + 1], byte_shift))
             m1 == IF MaskBit(req_mask, i) = 1 /\ offset + i < MEM_SIZE
                   THEN MemStore(m, offset + i, b)
                   ELSE m
         IN WriteLoop(m1, offset, req_data, req_mask, i + 1)

\* ReadLoop with a fault: the bytes of each word are packed most significant first
RECURSIVE ReadLoopSwapped(_, _, _, _)
ReadLoopSwapped(m, offset, data, i) ==
    IF i >= 16 THEN data
    ELSE LET b == MemByte(m, offset + i)
             word_idx == i \div 4
             byte_shift == (3 - (i % 4)) * 8
             d1 == [data EXCEPT ![word_idx + 1] =
                        U32Or(@, U32Shl(U32OfByte(b), byte_shift))]
         IN ReadLoopSwapped(m, offset, d1, i + 1)

\* dram.cc:181-186, the loop from index i on
RECURSIVE ReadLoop(_, _, _, _)
ReadLoop(m, offset, data, i) ==
    IF i >= 16 THEN data
    ELSE LET b == MemByte(m, offset + i)
             word_idx == i \div 4
             byte_shift == (i % 4) * 8
             d1 == [data EXCEPT ![word_idx + 1] =
                        U32Or(@, U32Shl(U32OfByte(b), byte_shift))]
         IN ReadLoop(m, offset, d1, i + 1)

-----------------------------------------------------------------------------
(* dram_tick *)

\* TickDown with a fault: a countdown of 1 is not decremented
TickDownStuck(q) ==
    [k \in 1..Len(q) |->
        IF q[k].countdown > 1 THEN [q[k] EXCEPT !.countdown = @ - 1] ELSE q[k]]

\* dram.cc:112-114
TickDown(q) ==
    [k \in 1..Len(q) |->
        IF q[k].countdown > 0 THEN [q[k] EXCEPT !.countdown = @ - 1] ELSE q[k]]

\* HeadFires with a fault: the consumer's readiness is not consulted
HeadFiresUnready(q, resp_ready) ==
    /\ q # <<>>
    /\ q[1].countdown = 0

\* dram.cc:116-118
HeadFires(q, resp_ready) ==
    /\ q # <<>>
    /\ q[1].countdown = 0
    /\ resp_ready # 0

\* Erase with a fault: the newest entry is removed instead of the oldest
ErasePopBack(q) == SubSeq(q, 1, Len(q) - 1)

\* dram.cc:130
Erase(q) == Tail(q)

\* CanAccept with a fault: off by one
CanAcceptOffByOne(q) == Len(q) <= MAX_QUEUE

\* dram.cc:135
CanAccept(q) == Len(q) < MAX_QUEUE

\* Accepts with a fault: the back-pressure signal is not consulted
AcceptsAlways(req_valid, can_accept) == req_valid # 0

\* dram.cc:138
Accepts(req_valid, can_accept) == req_valid # 0 /\ can_accept

\* dram.cc:139-147
InRange(raw_addr) ==
    /\ U32AtLeast(raw_addr, DRAM_BASE)
    /\ U32Less(raw_addr, DRAM_BASE + MEM_SIZE)

\* NewResponse with a fault: the countdown starts one short
NewResponseEarly(req_id) == [id |-> req_id, data |-> ZeroData, countdown |-> DELAY - 1]

\* dram.cc:154-157
NewResponse(req_id) == [id |-> req_id, data |-> ZeroData, countdown |-> DELAY]

\* dram.cc:159-197: the memory after an accepted request
Access(m, req_addr, req_isWr, req_data, req_mask) ==
    LET raw_addr == ToU32(req_addr)
    IN IF req_isWr # 0 /\ InRange(raw_addr)
       THEN WriteLoop(m, U32Val(raw_addr) - DRAM_BASE, req_data, req_mask, 0)
       ELSE m

\* dram.cc:153-197: the response record of an accepted request
Respond(m, req_id, req_addr, req_isWr) ==
    LET raw_addr == ToU32(req_addr)
        resp == NewResponse(req_id)
    IN IF req_isWr = 0 /\ InRange(raw_addr)
          /\ (U32Val(raw_addr) - DRAM_BASE) + 16 <= MEM_SIZE
       THEN [resp EXCEPT !.data =
                ReadLoop(m, U32Val(raw_addr) - DRAM_BASE, resp.data, 0)]
       ELSE resp

\* dram.cc:89-199
dram_tick(req_valid, req_id, req_addr, req_isWr, req_data, req_mask, resp_ready) ==
    LET ticked == TickDown(resp_queue)
        fires == HeadFires(ticked, resp_ready)
        drained == IF fires THEN Erase(ticked) ELSE ticked
        can_accept == CanAccept(drained)
        accept == Accepts(req_valid, can_accept)
    IN /\ resp_valid' = (IF fires THEN 1 ELSE 0)
       /\ resp_id' = (IF fires THEN ticked[1].id ELSE 0)
       /\ resp_data' = (IF fires THEN ticked[1].data ELSE ZeroData)
       /\ req_ready' = (IF can_accept THEN 1 ELSE 0)
       /\ mem_storage' = (IF accept
                          THEN Access(mem_storage, req_addr, req_isWr, req_data, req_mask)
                          ELSE mem_storage)
       /\ resp_queue' = (IF accept
                         THEN Append(drained, Respond(mem_storage, req_id, req_addr, req_isWr))
                         ELSE drained)

-----------------------------------------------------------------------------
(* math.c: USItype values are sequences of W bits, least significant first *)

W == 32

\* the USItype with the given 16-bit halves
Word(hi, lo) ==
    [k \in 1..W |-> IF k <= 16 THEN (lo \div Pow2(k - 1)) % 2
                    ELSE (hi \div Pow2(k - 17)) % 2]

\* x <<= 1: the top bit is lost
ShiftLeft1(x) == [k \in 1..W |-> IF k = 1 THEN 0 ELSE x[k - 1]]

\* (x >> i) & 1
BitAt(x, i) == x[i + 1]

\* x |= 1
OrOne(x) == [x EXCEPT ![1] = 1]

\* x |= (1U << i)
OrBit(x, i) == [x EXCEPT ![i + 1] = 1]

\* AtLeast with a fault: strict comparison
RECURSIVE Above(_, _, _)
Above(x, y, k) ==
    IF k = 0 THEN FALSE
    ELSE IF x[k] # y[k] THEN x[k] > y[k]
    ELSE Above(x, y, k - 1)

\* x >= y on the low k bits, most significant first
RECURSIVE AtLeast(_, _, _)
AtLeast(x, y, k) ==
    IF k = 0 THEN TRUE
    ELSE IF x[k] # y[k] THEN x[k] > y[k]
    ELSE AtLeast(x, y, k - 1)

\* the borrow into bit k of x - y
RECURSIVE Borrow(_, _, _)
Borrow(x, y, k) ==
    IF k = 1 THEN 0
    ELSE IF x[k - 1] - y[k - 1] - Borrow(x, y, k - 1) < 0 THEN 1 ELSE 0

\* x -= y, modulo 2^W
Minus(x, y) == [k \in 1..W |-> (x[k] - y[k] - Borrow(x, y, k)) % 2]

ZeroWord == [k \in 1..W |-> 0]

\* math.c:18-20 and 32-33: the locals at entry
Enter(fn, n, d, quot) ==
    [pc |-> fn, n |-> n, d |-> d, q |-> ZeroWord, r |-> ZeroWord, i |-> W - 1,
     iters |-> 0, quot |-> quot, rem |-> ZeroWord, wrapped |-> FALSE,
     loops |-> <<>>]

\* math.c:21-22 and 34-35: r after the shift and the incoming bit of n
Shifted(c) ==
    LET r1 == ShiftLeft1(c.r)
    IN IF BitAt(c.n, c.i) = 1 THEN OrOne(r1) ELSE r1

\* math.c:20-27: one iteration of the loop of __udivsi3
UDivIter ==
    /\ call.pc = "udiv" /\ call.i >= 0
    /\ LET r2 == Shifted(call)
           sub == AtLeast(r2, call.d, W)
       IN call' = [call EXCEPT
                     !.r = IF sub THEN Minus(r2, call.d) ELSE r2,
                     !.q = IF sub THEN OrBit(@, call.i) ELSE @,
                     !.i = @ - 1,
                     !.iters = @ + 1,
                     !.wrapped = @ \/ call.r[W] = 1]
    /\ UNCHANGED <<mem_storage, resp_queue, req_ready, resp_valid, resp_id,
                   resp_data, seen, pending, done, hist, used>>

\* math.c:28, then the caller enters __umodsi3 with the same arguments
UDivReturn ==
    /\ call.pc = "udiv" /\ call.i < 0
    /\ call' = [Enter("umod", call.n, call.d, call.q) EXCEPT
                  !.wrapped = call.wrapped, !.loops = <<call.iters>>]
    /\ UNCHANGED <<mem_storage, resp_queue, req_ready, resp_valid, resp_id,
                   resp_data, seen, pending, done, hist, used>>

\* math.c:33-39: one iteration of the loop of __umodsi3
UModIter ==
    /\ call.pc = "umod" /\ call.i >= 0
    /\ LET r2 == Shifted(call)
           sub == AtLeast(r2, call.d, W)
       IN call' = [call EXCEPT
                     !.r = IF sub THEN Minus(r2, call.d) ELSE r2,
                     !.i = @ - 1,
                     !.iters = @ + 1,
                     !.wrapped = @ \/ call.r[W] = 1]
    /\ UNCHANGED <<mem_storage, resp_queue, req_ready, resp_valid, resp_id,
                   resp_data, seen, pending, done, hist, used>>

\* math.c:40
UModReturn ==
    /\ call.pc = "umod" /\ call.i < 0
    /\ call' = [call EXCEPT !.pc = "done", !.rem = call.r,
                            !.loops = Append(@, call.iters)]
    /\ UNCHANGED <<mem_storage, resp_queue, req_ready, resp_valid, resp_id,
                   resp_data, seen, pending, done, hist, used>>

-----------------------------------------------------------------------------
(* Observer.  It watches the callback's inputs and outputs only: a request *)
(* counts as accepted when req_valid was 1 and req_ready came back 1, a    *)
(* response as delivered when resp_valid came back 1.                      *)

AgeCap == DELAY + 1

\* the request as presented; fields the caller leaves unspecified are 0
Presented(req_valid, req_id, req_addr, req_isWr, req_data, req_mask, resp_ready) ==
    [valid |-> req_valid,
     ready |-> resp_ready,
     id    |-> IF req_valid # 0 THEN req_id ELSE 0,
     addr  |-> IF req_valid # 0 THEN req_addr ELSE <<0, 0, 0, 0>>,
     isWr  |-> IF req_valid # 0 THEN req_isWr ELSE 0,
     data  |-> IF req_valid # 0 /\ req_isWr # 0 THEN req_data ELSE ZeroData,
     mask  |-> IF req_valid # 0 /\ req_isWr # 0 THEN req_mask ELSE 0]

\* the 64-bit address lies in [0, MEM_SIZE - room]
InStorage(addr, room) ==
    /\ addr[3] = 0 /\ addr[4] = 0
    /\ addr[2] < MEM_SIZE \div LIMB
    /\ addr[1] + LIMB * addr[2] + room <= MEM_SIZE

OffsetOf(addr) == addr[1] + LIMB * addr[2]

\* the 16 bytes of memory at offset..offset+15
Snapshot(m, addr) ==
    IF InStorage(addr, 16)
    THEN [i \in 1..16 |-> MemByte(m, OffsetOf(addr) + i - 1)]
    ELSE <<>>

NoResp == [id |-> 0, isWr |-> 0, addr |-> <<0, 0, 0, 0>>, age |-> 0,
           stalled |-> FALSE, snap |-> <<>>, kind |-> "none"]

Observe(p) ==
    LET aged == [k \in 1..Len(pending) |->
                    [pending[k] EXCEPT
                        !.age = IF @ < AgeCap THEN @ + 1 ELSE @,
                        !.stalled = @ \/ p.ready = 0]]
        delivered == resp_valid' = 1
        rest == IF delivered /\ aged # <<>> THEN Tail(aged) ELSE aged
        accepted == p.valid # 0 /\ req_ready' = 1
        entry == [id |-> p.id, isWr |-> p.isWr, addr |-> p.addr, age |-> 0,
                  stalled |-> FALSE, snap |-> Snapshot(mem_storage, p.addr),
                  kind |-> "resp"]
    IN /\ seen' = p
       /\ done' = IF ~delivered THEN NoResp
                  ELSE IF aged = <<>> THEN [NoResp EXCEPT !.kind = "spurious"]
                  ELSE aged[1]
       /\ pending' = IF accepted THEN Append(rest, entry) ELSE rest
       /\ hist' = [acc |-> IF accepted THEN Append(hist.acc, p.id) ELSE hist.acc,
                   del |-> IF delivered THEN Append(hist.del, resp_id') ELSE hist.del]

-----------------------------------------------------------------------------
(* Environment: the simulator that calls dram_tick once per cycle *)

A_IN   == <<4, 0, 0, 0>>            \* 0x0000000000000004
A_EDGE == <<65528, 1023, 0, 0>>     \* MEM_SIZE - 8
A_OUT  == <<0, 1024, 0, 0>>         \* MEM_SIZE
A_HIGH == <<12, 0, 1, 0>>           \* 2^32 + 12

D1 == <<<<513, 1027>>, <<1541, 2055>>, <<2569, 3083>>, <<3597, 4111>>>>
D2 == <<<<62193, 62707>>, <<63221, 63735>>, <<64249, 64763>>, <<65277, 255>>>>

M_ALL  == 65535
M_PART == 98309
M_NEG  == -16

Tick(p) ==
    /\ dram_tick(p.valid, p.id, p.addr, p.isWr, p.data, p.mask, p.ready)
    /\ Observe(Presented(p.valid, p.id, p.addr, p.isWr, p.data, p.mask, p.ready))
    /\ UNCHANGED call

MaxOdd == 2
Extra == 2
MemReqs == 3

InitDram ==
    /\ mem_storage = [x \in {} |-> 0]
    /\ resp_queue = <<>>
    /\ req_ready = 0
    /\ resp_valid = 0
    /\ resp_id = 0
    /\ resp_data = ZeroData
    /\ seen = Presented(0, 0, <<0, 0, 0, 0>>, 0, ZeroData, 0, 0)
    /\ pending = <<>>
    /\ done = NoResp
    /\ hist = [acc |-> <<>>, del |-> <<>>]
    /\ used = [odd |-> 0, reqs |-> 0]

\* no division is running
Init == InitDram /\ call = [pc |-> "idle"]

\* the request was accepted in this tick
Taken(p) == p.valid # 0 /\ req_ready' = 1

(* Deep-queue runs.  The requester issues DeepReqs requests, request k being *)
(* Workload[k mod 3], one per tick with the consumer ready, except in at     *)
(* most MaxOdd ticks of its choice in which it idles or the consumer is not  *)
(* ready; after its last request it idles until the queue has drained.       *)

DeepReqs == MAX_QUEUE + Extra

Workload ==
    <<[id |-> 1, isWr |-> 1, addr |-> A_IN, data |-> D1, mask |-> M_ALL],
      [id |-> 2, isWr |-> 0, addr |-> A_IN, data |-> ZeroData, mask |-> 0],
      [id |-> 3, isWr |-> 1, addr |-> A_IN, data |-> D2, mask |-> M_PART]>>

DeepTick ==
    \E v \in {0, 1}, rdy \in {0, 1} :
        LET more == used.reqs < DeepReqs
            cost == (IF more /\ v = 0 THEN 1 ELSE 0) + (1 - rdy)
            w == Workload[(used.reqs % Len(Workload)) + 1]
            p == [valid |-> v, ready |-> rdy, id |-> w.id, addr |-> w.addr,
                  isWr |-> w.isWr, data |-> w.data, mask |-> w.mask]
        IN /\ ~more => v = 0
           /\ used.odd + cost <= MaxOdd
           /\ Tick(p)
           /\ used' = [odd  |-> used.odd + cost,
                       reqs |-> IF Taken(p) THEN used.reqs + 1 ELSE used.reqs]

NextDeep == DeepTick

SpecDeep == Init /\ [][NextDeep]_vars

(* Memory runs.  The requester issues MemReqs arbitrary requests back to    *)
(* back, then idles; the consumer is always ready.                          *)

MemAddrs == {A_IN, A_EDGE, A_OUT, A_HIGH}
MemDatas == {D2}
MemMasks == {M_PART, M_NEG}

MemStep(p) ==
    /\ Tick(p)
    /\ used' = [odd  |-> 0,
                reqs |-> IF Taken(p) THEN used.reqs + 1 ELSE used.reqs]

MemWrite ==
    \E a \in MemAddrs, d \in MemDatas, m \in MemMasks :
        /\ used.reqs < MemReqs
        /\ MemStep([valid |-> 1, ready |-> 1, id |-> 1, addr |-> a,
                    isWr |-> 1, data |-> d, mask |-> m])

MemRead ==
    \E a \in MemAddrs :
        /\ used.reqs < MemReqs
        /\ MemStep([valid |-> 1, ready |-> 1, id |-> 2, addr |-> a,
                    isWr |-> 0, data |-> ZeroData, mask |-> 0])

MemIdle ==
    /\ used.reqs >= MemReqs
    /\ MemStep([valid |-> 0, ready |-> 1, id |-> 0, addr |-> <<0, 0, 0, 0>>,
                isWr |-> 0, data |-> ZeroData, mask |-> 0])

Next == MemWrite \/ MemRead \/ MemIdle

Spec == Init /\ [][Next]_vars

(* Liveness runs.  The requester issues LiveReqs requests of the workload   *)
(* back to back and then idles; the consumer is ready or not as it likes,   *)
(* but it is ready infinitely often.                                        *)

LiveReqs == 8

LiveTick(rdy) ==
    LET more == used.reqs < LiveReqs
        w == Workload[(used.reqs % Len(Workload)) + 1]
        p == [valid |-> IF more THEN 1 ELSE 0, ready |-> rdy, id |-> w.id,
              addr |-> w.addr, isWr |-> w.isWr, data |-> w.data, mask |-> w.mask]
    IN /\ Tick(p)
       /\ used' = [odd  |-> 0,
                   reqs |-> IF Taken(p) THEN used.reqs + 1 ELSE used.reqs]

LiveReady == LiveTick(1)

LiveStall == LiveTick(0)

NextLive == LiveReady \/ LiveStall

SpecLive == Init /\ [][NextLive]_vars /\ WF_vars(LiveReady)

(* Division runs.  A caller computes __udivsi3(n, d) and then               *)
(* __umodsi3(n, d) for a dividend and a non-zero divisor of the sets below. *)

Dividends ==
    {Word(0, 0), Word(0, 1), Word(0, 7), Word(1, 0), Word(4660, 22136),
     Word(32767, 65535), Word(32768, 0), Word(32768, 1), Word(65535, 65534),
     Word(65535, 65535)}

Divisors ==
    {Word(0, 1), Word(0, 2), Word(0, 3), Word(0, 7), Word(1, 0),
     Word(32767, 65535), Word(32768, 0), Word(32768, 1), Word(65535, 65535)}

InitDiv ==
    /\ InitDram
    /\ \E n \in Dividends, d \in Divisors : call = Enter("udiv", n, d, ZeroWord)

NextDiv == UDivIter \/ UDivReturn \/ UModIter \/ UModReturn

SpecDiv == InitDiv /\ [][NextDiv]_vars

-----------------------------------------------------------------------------
(* Vocabulary of the properties *)

IsPrefix(a, b) == Len(a) <= Len(b) /\ \A k \in 1..Len(a) : a[k] = b[k]

\* what a queue holds, countdowns aside
Payload(q) == [k \in 1..Len(q) |-> <<q[k].id, q[k].data>>]

\* entries left in the queue after this tick's drain step
AfterDrain == Len(resp_queue) - resp_valid'

\* the head is due in this tick: its countdown is 0 after the decrement
HeadDue == resp_queue # <<>> /\ resp_queue[1].countdown <= 1

\* byte i (0..15) of a 128-bit payload: bits 8*(i mod 4).. of word i div 4
ByteOfData(data, i) ==
    LET w == data[(i \div 4) + 1]
    IN CASE i % 4 = 0 -> w[1] % 256
         [] i % 4 = 1 -> w[1] \div 256
         [] i % 4 = 2 -> w[2] % 256
         [] i % 4 = 3 -> w[2] \div 256

\* the 128-bit payload whose byte i is bytes[i + 1]
DataOfBytes(bytes) ==
    [j \in 1..4 |-> <<bytes[4 * j - 3] + 256 * bytes[4 * j - 2],
                      bytes[4 * j - 1] + 256 * bytes[4 * j]>>]

\* bit i (0..15) of the two's complement of mask
BitSet(mask, i) == ((mask % LIMB) \div Pow2(i)) % 2 = 1

\* the low 32 bits of the address are an offset into the storage
OffsetInRange(addr) == addr[2] < MEM_SIZE \div LIMB

\* the 64-bit address lies outside [0, MEM_SIZE)
OutOfBounds(addr) == ~InStorage(addr, 1)

AcceptedNow == seen'.valid = 1 /\ req_ready' = 1

-----------------------------------------------------------------------------
(* C1: the response queue never holds more than 16 entries, and a response *)
(* is enqueued only in a tick in which the queue holds fewer than 16       *)
(* entries at the moment of acceptance (after that tick's drain step).     *)
QueueCapacity ==
    [][/\ Len(resp_queue') <= MAX_QUEUE
       /\ Len(resp_queue') > AfterDrain => AfterDrain < MAX_QUEUE]_vars

\* a request was accepted in the tick that drained the head of a full queue
QueueCapacityWitness ==
    /\ Len(resp_queue) = MAX_QUEUE
    /\ resp_valid = 1
    /\ seen.valid = 1 /\ req_ready = 1

(* C2: a response is delivered no earlier than 20 ticks after its request  *)
(* was accepted, and exactly 20 ticks after it when resp_ready was         *)
(* asserted on every tick since; the countdown starts at 20, falls by one  *)
(* per tick and never goes below 0.                                        *)
FixedLatency ==
    /\ done.kind # "spurious"
    /\ done.kind = "resp" => done.age >= DELAY /\ (~done.stalled => done.age = DELAY)
    /\ Len(resp_queue) = Len(pending)
    /\ \A k \in 1..Len(pending) :
        /\ ~pending[k].stalled => pending[k].age < DELAY
        /\ k <= Len(resp_queue) =>
            /\ resp_queue[k].countdown >= 0
            /\ resp_queue[k].countdown =
                 IF pending[k].age < DELAY THEN DELAY - pending[k].age ELSE 0

\* a response delivered on time out of a queue that was full
FixedLatencyWitness ==
    /\ done.kind = "resp" /\ ~done.stalled /\ done.age = DELAY
    /\ Len(resp_queue) = MAX_QUEUE - 1

(* C3: the ids delivered so far are a prefix of the ids accepted so far.   *)
StrictFifo == IsPrefix(hist.del, hist.acc)

\* a response was delivered while the entry behind it was already due
StrictFifoWitness ==
    /\ resp_valid = 1
    /\ Len(hist.del) >= 2
    /\ resp_queue # <<>> /\ resp_queue[1].countdown = 0
    /\ resp_queue[1].id # resp_id

(* C5: a tick removes at most one entry; resp_valid is 1 exactly when,     *)
(* after the decrement, the queue is non-empty, the head's countdown is 0  *)
(* and resp_ready is 1, and then the head is output and removed; otherwise *)
(* nothing is removed and resp_valid, resp_id and resp_data are 0.         *)
OneDrainPerTick ==
    [][LET fire == HeadDue /\ seen'.ready = 1
       IN /\ resp_valid' = 1 <=> fire
          /\ fire => /\ resp_id' = resp_queue[1].id
                     /\ resp_data' = resp_queue[1].data
                     /\ IsPrefix(Tail(Payload(resp_queue)), Payload(resp_queue'))
          /\ ~fire => /\ resp_valid' = 0 /\ resp_id' = 0 /\ resp_data' = ZeroData
                      /\ IsPrefix(Payload(resp_queue), Payload(resp_queue'))
          /\ Len(resp_queue') >= Len(resp_queue) - 1]_vars

\* the head was due but the consumer was not ready: nothing was output
OneDrainPerTickWitness ==
    /\ seen.ready = 0
    /\ resp_valid = 0
    /\ Len(resp_queue) >= 2
    /\ resp_queue[1].countdown = 0 /\ resp_queue[2].countdown = 0

(* C7: req_ready is 1 exactly when the queue holds fewer than 16 entries   *)
(* after the tick's drain step; a request presented while req_ready is 0   *)
(* is not accepted: memory is unchanged and nothing is enqueued.           *)
BackPressure ==
    [][/\ req_ready' = 1 <=> AfterDrain < MAX_QUEUE
       /\ req_ready' \in {0, 1}
       /\ (seen'.valid = 1 /\ req_ready' = 0) =>
            /\ mem_storage' = mem_storage
            /\ Len(resp_queue') = AfterDrain
            /\ IsPrefix(Payload(resp_queue'), Payload(resp_queue))]_vars

\* a write that would have changed memory was refused by a full queue
BackPressureWitness ==
    /\ seen.valid = 1 /\ seen.isWr = 1 /\ req_ready = 0
    /\ Len(resp_queue) = MAX_QUEUE
    /\ \E i \in 0..15 :
        /\ BitSet(seen.mask, i)
        /\ MemByte(mem_storage, OffsetOf(seen.addr) + i) # ByteOfData(seen.data, i)

(* C4: an accepted write whose offset is in range sets byte offset+i to    *)
(* byte i of req_data exactly for the i in 0..15 whose mask bit is set and *)
(* for which offset+i lies inside the storage; every other byte of memory  *)
(* is unchanged.                                                           *)
MaskedWrite ==
    [][(AcceptedNow /\ seen'.isWr = 1 /\ OffsetInRange(seen'.addr)) =>
        LET o == OffsetOf(seen'.addr)
            hit(a) == /\ a - o \in 0..15
                      /\ BitSet(seen'.mask, a - o)
                      /\ a < MEM_SIZE
        IN /\ \A a \in DOMAIN mem_storage' : a \in 0..(MEM_SIZE - 1)
           /\ \A a \in DOMAIN mem_storage \cup DOMAIN mem_storage' \cup o..(o + 15) :
                MemByte(mem_storage', a) =
                    IF hit(a) THEN ByteOfData(seen'.data, a - o)
                    ELSE MemByte(mem_storage, a)]_vars

\* a write at the last 8 bytes of the storage with lanes 4..15 enabled:
\* lanes 4..7 landed, lane 0 was masked off, lanes 8..15 fell outside
MaskedWriteWitness ==
    /\ seen.valid = 1 /\ seen.isWr = 1 /\ req_ready = 1
    /\ seen.addr = A_EDGE /\ seen.mask = M_NEG
    /\ MemByte(mem_storage, MEM_SIZE - 1) = ByteOfData(seen.data, 7)
    /\ MemByte(mem_storage, MEM_SIZE - 1) # 0
    /\ MemByte(mem_storage, MEM_SIZE - 8) = 0

(* C6: for every 64-bit req_addr outside [0, 64 MB), an accepted write     *)
(* changes no byte of memory and an accepted read yields all-zero data.    *)
OutOfBoundsIgnored ==
    [][(AcceptedNow /\ OutOfBounds(seen'.addr)) =>
        /\ seen'.isWr = 1 => mem_storage' = mem_storage
        /\ seen'.isWr = 0 => /\ resp_queue' # <<>>
                             /\ resp_queue'[Len(resp_queue')].data = ZeroData]_vars

(* C10: the response to a read of 16 bytes inside the storage carries the  *)
(* bytes that were stored there at the tick of its acceptance, whatever is *)
(* written afterwards; a write acknowledgement carries all-zero data.      *)
ReadSnapshot ==
    LET right(e, data) ==
            /\ (e.isWr = 0 /\ e.snap # <<>>) => data = DataOfBytes(e.snap)
            /\ e.isWr = 1 => data = ZeroData
    IN /\ Len(resp_queue) = Len(pending)
       /\ \A k \in 1..Len(pending) :
            k <= Len(resp_queue) => right(pending[k], resp_queue[k].data)
       /\ done.kind = "resp" => right(done, resp_data)

\* a read response delivered with the non-zero bytes of an earlier write,
\* after a later write had changed those bytes in memory
ReadSnapshotWitness ==
    /\ done.kind = "resp" /\ done.isWr = 0 /\ done.snap # <<>>
    /\ resp_valid = 1
    /\ resp_data # ZeroData
    /\ Snapshot(mem_storage, done.addr) # done.snap

(* C8: every accepted request has exactly one record in the queue until it *)
(* is delivered, and every accepted request is eventually delivered, given *)
(* that resp_ready is asserted infinitely often.                           *)
EveryResponseDelivered ==
    /\ [](/\ IsPrefix(hist.del, hist.acc)
          /\ [k \in 1..Len(resp_queue) |-> resp_queue[k].id] =
                SubSeq(hist.acc, Len(hist.del) + 1, Len(hist.acc)))
    /\ (Len(hist.del) < Len(hist.acc)) ~> (Len(hist.del) = Len(hist.acc))

\* the last request's response was delivered late, after the consumer stalled
EveryResponseDeliveredWitness ==
    /\ Len(hist.acc) = LiveReqs
    /\ hist.del = hist.acc
    /\ resp_queue = <<>>
    /\ done.kind = "resp" /\ done.stalled /\ done.age > DELAY

\* the value of bits from..from+7 of x
ByteValue(x, from) ==
    x[from] + 2 * x[from + 1] + 4 * x[from + 2] + 8 * x[from + 3]
    + 16 * x[from + 4] + 32 * x[from + 5] + 64 * x[from + 6] + 128 * x[from + 7]

\* x in base 256, least significant digit first
Digits(x) == [k \in 1..4 |-> ByteValue(x, 8 * k - 7)]

\* column k (1..8) of the schoolbook product a * b, plus digit k of c
Column(a, b, c, k) ==
    LET pairs == {ij \in (1..4) \X (1..4) : ij[1] + ij[2] = k + 1}
        sum[S \in SUBSET pairs] ==
            IF S = {} THEN 0
            ELSE LET x == CHOOSE y \in S : TRUE
                 IN a[x[1]] * b[x[2]] + sum[S \ {x}]
    IN sum[pairs] + (IF k <= 4 THEN c[k] ELSE 0)

\* a * b + c = n as natural numbers, from digit k on with the carry so far
RECURSIVE SumsTo(_, _, _, _, _, _)
SumsTo(a, b, c, n, k, carry) ==
    IF k > 8 THEN carry = 0
    ELSE LET t == Column(a, b, c, k) + carry
         IN /\ t % 256 = (IF k <= 4 THEN n[k] ELSE 0)
            /\ SumsTo(a, b, c, n, k + 1, t \div 256)

\* x < y as natural numbers
Below(x, y) ==
    LET hi(z) == ByteValue(z, 17) + 256 * ByteValue(z, 25)
        lo(z) == ByteValue(z, 1) + 256 * ByteValue(z, 9)
    IN hi(x) < hi(y) \/ (hi(x) = hi(y) /\ lo(x) < lo(y))

(* C9: for d # 0, q = __udivsi3(n, d) and r = __umodsi3(n, d) satisfy      *)
(* n = q*d + r and r < d; no left shift of the remainder loses a set bit;  *)
(* each loop runs exactly 32 iterations.                                   *)
DivModCorrect ==
    /\ ~call.wrapped
    /\ call.iters <= W
    /\ call.pc = "done" =>
        /\ call.loops = <<W, W>>
        /\ SumsTo(Digits(call.quot), Digits(call.d), Digits(call.rem),
                  Digits(call.n), 1, 0)
        /\ Below(call.rem, call.d)

\* a divisor above 2^31 that goes once into the dividend, with a remainder
DivModCorrectWitness ==
    /\ call.pc = "done"
    /\ call.d = Word(32768, 1)
    /\ call.quot = Word(0, 1)
    /\ call.rem = Word(32767, 65534)

====
